---- MODULE Spec2Model ----
(***************************************************************************)
(* pactum: the Interaction contract model (src/models/interaction.js), the *)
(* mock control plane (class Mock) and the named handler registry.         *)
(*                                                                         *)
(* JavaScript values are tagged records; typeof and truthiness are         *)
(* computed from the tag as the language computes them (typeof null is     *)
(* 'object', '' and 0 are falsy).                                          *)
(***************************************************************************)
EXTENDS Integers, Sequences, FiniteSets, TLC

VARIABLES
    configPort,     \* config.mock.port
    interactions,   \* the module-level Map  id -> Interaction
    handlers,       \* the handler registry  kind -> (name -> function)
    op,             \* the call being made: its name and arguments
    ret,            \* its outcome: a returned value or a thrown error
    calls           \* the calls it made on the injected server and the store

vars == <<configPort, interactions, handlers, op, ret, calls>>

(***************************************************************************)
(* JavaScript scalar values                                                *)
(***************************************************************************)
JS(t, s, n, b) == [t |-> t, s |-> s, n |-> n, b |-> b]
Undefined == JS("undefined", "", 0, FALSE)
Null      == JS("null", "", 0, FALSE)
Str(s)    == JS("string", s, 0, FALSE)
Num(n)    == JS("number", "", n, FALSE)
Bool(b)   == JS("boolean", "", 0, b)
Fn(s)     == JS("function", s, 0, FALSE)

\* typeof v
TypeOf(v) == IF v.t = "null" THEN "object" ELSE v.t

\* !!v
Truthy(v) ==
    CASE v.t = "undefined" -> FALSE
      [] v.t = "null"      -> FALSE
      [] v.t = "string"    -> v.s # ""
      [] v.t = "number"    -> v.n # 0
      [] v.t = "boolean"   -> v.b
      [] OTHER             -> TRUE

\* reading a property of v throws a TypeError exactly for null and undefined
CanRead(v) == v.t \notin {"undefined", "null"}

(***************************************************************************)
(* Raw interaction descriptions.  A value that is not an object (t is not  *)
(* "object") has no properties: every property reads as undefined.         *)
(***************************************************************************)
RawRequest(t, method, path, ignoreQuery, ignoreBody) ==
    [t |-> t, method |-> method, path |-> path,
     ignoreQuery |-> ignoreQuery, ignoreBody |-> ignoreBody]

RawResponse(t, status) == [t |-> t, status |-> status]

RawInteraction(t, id, port, provider, state, uponReceiving, withRequest, willRespondWith) ==
    [t |-> t, id |-> id, port |-> port, provider |-> provider, state |-> state,
     uponReceiving |-> uponReceiving, withRequest |-> withRequest,
     willRespondWith |-> willRespondWith]

NoRequest(t)  == RawRequest(t, Undefined, Undefined, Undefined, Undefined)
NoResponse(t) == RawResponse(t, Undefined)
NoInteraction(t) ==
    RawInteraction(t, Undefined, Undefined, Undefined, Undefined, Undefined,
                   NoRequest("undefined"), NoResponse("undefined"))

(***************************************************************************)
(* Errors and outcomes                                                     *)
(***************************************************************************)
Error(kind, msg) == [kind |-> kind, msg |-> msg]
NoError == Error("none", "")
PactumInteractionError(msg)   == Error("PactumInteractionError", msg)
PactumConfigurationError(msg) == Error("PactumConfigurationError", msg)
PactumHandlerError(msg)       == Error("PactumHandlerError", msg)
TypeError(msg)                == Error("TypeError", msg)
ServerFailure                 == Error("ServerFailure", "injected server failed")

Return(v) == [status |-> "return", err |-> NoError, val |-> v]
Throw(e)  == [status |-> "throw", err |-> e, val |-> Undefined]
Pending   == [status |-> "pending", err |-> NoError, val |-> Undefined]

(***************************************************************************)
(* Interaction.validateInteraction: the first failing check throws.        *)
(* The result is the error thrown, or NoError.                             *)
(***************************************************************************)
ALLOWED_REQUEST_METHODS == {"GET", "POST", "PUT", "DELETE", "PATCH", "HEAD"}

NonEmptyString(v) == TypeOf(v) = "string" /\ Truthy(v)

\* a faulty variant: the ignoreBody check of contract mode is missing
validateInteraction_NoIgnoreBody(rawInteraction, mock) ==
    LET withRequest == rawInteraction.withRequest
        willRespondWith == rawInteraction.willRespondWith
    IN
    IF TypeOf(rawInteraction) # "object" THEN
        PactumInteractionError("Invalid interaction provided")
    ELSE IF ~CanRead(rawInteraction) THEN
        TypeError("Cannot destructure rawInteraction")
    ELSE IF ~mock /\ ~NonEmptyString(rawInteraction.provider) THEN
        PactumInteractionError("Invalid provider name provided")
    ELSE IF ~mock /\ ~NonEmptyString(rawInteraction.state) THEN
        PactumInteractionError("Invalid state provided")
    ELSE IF ~mock /\ ~NonEmptyString(rawInteraction.uponReceiving) THEN
        PactumInteractionError("Invalid upon receiving description provided")
    ELSE IF TypeOf(withRequest) # "object" THEN
        PactumInteractionError("Invalid interaction request provided")
    ELSE IF ~CanRead(withRequest) THEN
        TypeError("Cannot read properties of withRequest")
    ELSE IF ~NonEmptyString(withRequest.method) THEN
        PactumInteractionError("Invalid interaction request method provided")
    ELSE IF withRequest.method.s \notin ALLOWED_REQUEST_METHODS THEN
        PactumInteractionError("Invalid interaction request method provided")
    ELSE IF ~NonEmptyString(withRequest.path) THEN
        PactumInteractionError("Invalid interaction request path provided")
    ELSE IF ~mock /\ Truthy(withRequest.ignoreQuery) THEN
        PactumInteractionError("Pact interaction won't support ignore query")
    ELSE IF TypeOf(willRespondWith) # "object" THEN
        PactumInteractionError("Invalid interaction request provided")
    ELSE IF ~CanRead(willRespondWith) THEN
        TypeError("Cannot read properties of willRespondWith")
    ELSE IF TypeOf(willRespondWith.status) # "number" THEN
        PactumInteractionError("Invalid interaction response status provided")
    ELSE NoError

validateInteraction(rawInteraction, mock) ==
    LET withRequest == rawInteraction.withRequest
        willRespondWith == rawInteraction.willRespondWith
    IN
    IF TypeOf(rawInteraction) # "object" THEN
        PactumInteractionError("Invalid interaction provided")
    ELSE IF ~CanRead(rawInteraction) THEN
        \* const { provider, ... } = null
        TypeError("Cannot destructure rawInteraction")
    ELSE IF ~mock /\ ~NonEmptyString(rawInteraction.provider) THEN
        PactumInteractionError("Invalid provider name provided")
    ELSE IF ~mock /\ ~NonEmptyString(rawInteraction.state) THEN
        PactumInteractionError("Invalid state provided")
    ELSE IF ~mock /\ ~NonEmptyString(rawInteraction.uponReceiving) THEN
        PactumInteractionError("Invalid upon receiving description provided")
    ELSE IF TypeOf(withRequest) # "object" THEN
        PactumInteractionError("Invalid interaction request provided")
    ELSE IF ~CanRead(withRequest) THEN
        \* null.method
        TypeError("Cannot read properties of withRequest")
    ELSE IF ~NonEmptyString(withRequest.method) THEN
        PactumInteractionError("Invalid interaction request method provided")
    ELSE IF withRequest.method.s \notin ALLOWED_REQUEST_METHODS THEN
        PactumInteractionError("Invalid interaction request method provided")
    ELSE IF ~NonEmptyString(withRequest.path) THEN
        PactumInteractionError("Invalid interaction request path provided")
    ELSE IF ~mock /\ Truthy(withRequest.ignoreQuery) THEN
        PactumInteractionError("Pact interaction won't support ignore query")
    ELSE IF ~mock /\ Truthy(withRequest.ignoreBody) THEN
        PactumInteractionError("Pact interaction won't support ignore body")
    ELSE IF TypeOf(willRespondWith) # "object" THEN
        \* the message of the request check, reused for the response
        PactumInteractionError("Invalid interaction request provided")
    ELSE IF ~CanRead(willRespondWith) THEN
        \* null.status
        TypeError("Cannot read properties of willRespondWith")
    ELSE IF TypeOf(willRespondWith.status) # "number" THEN
        PactumInteractionError("Invalid interaction response status provided")
    ELSE NoError

(***************************************************************************)
(* InteractionRequest, InteractionResponse, Interaction constructors.      *)
(* headers, query and body are copied as given and take no part in any     *)
(* check; they are left out of the records.                                *)
(***************************************************************************)
\* an ignore flag is taken over only when it is a boolean
IgnoreFlag(v) == IF TypeOf(v) = "boolean" THEN v ELSE Bool(FALSE)

InteractionRequest(request) ==
    [method |-> request.method, path |-> request.path,
     ignoreBody |-> IgnoreFlag(request.ignoreBody),
     ignoreQuery |-> IgnoreFlag(request.ignoreQuery)]

InteractionResponse(response) == [status |-> response.status]

\* the port the configuration starts with
DefaultMockPort == 9393

\* a faulty variant: the port ignores the configured default
InteractionPort_Fixed(port, defaultPort) ==
    IF Truthy(port) THEN port ELSE Num(DefaultMockPort)

\* port || config.mock.port
InteractionPort(port, defaultPort) ==
    IF Truthy(port) THEN port ELSE Num(defaultPort)

\* id || helper.getRandomId()
InteractionId(id, randomId) == IF Truthy(id) THEN id ELSE Str(randomId)

\* new Interaction(rawInteraction, mock), with the id the generator would
\* hand out and the configured default port
Interaction(rawInteraction, mock, randomId, defaultPort) ==
    LET e == validateInteraction(rawInteraction, mock) IN
    IF e # NoError THEN Throw(e)
    ELSE Return(
        [id |-> InteractionId(rawInteraction.id, randomId),
         port |-> InteractionPort(rawInteraction.port, defaultPort),
         mock |-> mock,
         provider |-> rawInteraction.provider,
         state |-> rawInteraction.state,
         uponReceiving |-> rawInteraction.uponReceiving,
         withRequest |-> InteractionRequest(rawInteraction.withRequest),
         willRespondWith |-> InteractionResponse(rawInteraction.willRespondWith)])

(***************************************************************************)
(* Mock: the control plane.  Each operation is computed as a record        *)
(*   [ret, calls, interactions, configPort]                                *)
(* from the state it starts in; an action installs the record.             *)
(***************************************************************************)
ServerCall(fn, id, arg, ok) == [fn |-> fn, id |-> id, arg |-> arg, ok |-> ok]
ServerAdd(obj, ok) == ServerCall("server.addDefaultInteraction", obj.id, obj, ok)
StoreAdd(obj)      == ServerCall("store.addInteraction", obj.id, obj, TRUE)

Effect(r, c, table, port) ==
    [ret |-> r, calls |-> c, interactions |-> table, configPort |-> port]

\* Map.prototype.set
MapSet(table, key, value) ==
    [k \in DOMAIN table \cup {key} |-> IF k = key THEN value ELSE table[k]]

\* a parameter with the default  port = config.mock.port
PortOrDefault(port, defaultPort) ==
    IF port.t = "undefined" THEN Num(defaultPort) ELSE port

StartStop(fn, what, port, table, defaultPort) ==
    LET p == PortOrDefault(port, defaultPort) IN
    IF TypeOf(p) # "number" THEN
        Effect(Throw(PactumConfigurationError(what)), <<>>, table, defaultPort)
    ELSE Effect(Return(Undefined), <<ServerCall(fn, Undefined, p, TRUE)>>,
                table, defaultPort)

SetDefaultPort(port, table, defaultPort) ==
    IF TypeOf(port) # "number" THEN
        Effect(Throw(PactumConfigurationError("Invalid default port number")),
               <<>>, table, defaultPort)
    ELSE Effect(Return(Undefined), <<>>, table, port.n)

AddDefaultMockInteraction(interaction, randomId, serverOk, table, defaultPort) ==
    LET c == Interaction(interaction, TRUE, randomId, defaultPort) IN
    IF c.status = "throw" THEN Effect(c, <<>>, table, defaultPort)
    ELSE IF ~serverOk THEN
        Effect(Throw(ServerFailure), <<ServerAdd(c.val, FALSE)>>, table, defaultPort)
    ELSE Effect(Return(c.val.id), <<ServerAdd(c.val, TRUE)>>, table, defaultPort)

\* a faulty variant: the store is told before the server has accepted
AddDefaultPactInteraction_StoreFirst(interaction, randomId, serverOk, table, defaultPort) ==
    LET c == Interaction(interaction, FALSE, randomId, defaultPort) IN
    IF c.status = "throw" THEN Effect(c, <<>>, table, defaultPort)
    ELSE LET t == MapSet(table, c.val.id, c.val) IN
         IF ~serverOk THEN
            Effect(Throw(ServerFailure),
                   <<StoreAdd(c.val), ServerAdd(c.val, FALSE)>>, t, defaultPort)
         ELSE Effect(Return(c.val.id),
                     <<StoreAdd(c.val), ServerAdd(c.val, TRUE)>>, t, defaultPort)

AddDefaultPactInteraction(interaction, randomId, serverOk, table, defaultPort) ==
    LET c == Interaction(interaction, FALSE, randomId, defaultPort) IN
    IF c.status = "throw" THEN Effect(c, <<>>, table, defaultPort)
    ELSE LET t == MapSet(table, c.val.id, c.val) IN
         IF ~serverOk THEN
            Effect(Throw(ServerFailure), <<ServerAdd(c.val, FALSE)>>, t, defaultPort)
         ELSE Effect(Return(c.val.id),
                     <<ServerAdd(c.val, TRUE), StoreAdd(c.val)>>, t, defaultPort)

\* the loop  for (let i = 0; i < interactions.length; i++)  of both batch
\* operations, from element i on, with the ids and calls made so far;
\* failAt is the element at which the server throws (0: it never does)
RECURSIVE AddLoop(_, _, _, _, _, _, _, _)
AddLoop(items, mock, randomIds, failAt, defaultPort, i, ids, made) ==
    IF i > Len(items) THEN [ret |-> Return(ids), calls |-> made]
    ELSE LET c == Interaction(items[i], mock, randomIds[i], defaultPort) IN
         IF c.status = "throw" THEN [ret |-> c, calls |-> made]
         ELSE IF failAt = i THEN
            [ret |-> Throw(ServerFailure),
             calls |-> Append(made, ServerAdd(c.val, FALSE))]
         ELSE AddLoop(items, mock, randomIds, failAt, defaultPort, i + 1,
                      Append(ids, c.val.id), Append(made, ServerAdd(c.val, TRUE)))

\* a faulty variant: a batch that fails registers nothing
AddDefaultInteractions_Atomic(list, mock, what, randomIds, failAt, table, defaultPort) ==
    IF ~list.isArray THEN
        Effect(Throw(PactumConfigurationError(what)), <<>>, table, defaultPort)
    ELSE LET r == AddLoop(list.items, mock, randomIds, failAt, defaultPort,
                          1, <<>>, <<>>) IN
         Effect(r.ret, IF r.ret.status = "throw" THEN <<>> ELSE r.calls,
                table, defaultPort)

\* addDefaultMockInteractions (mock = true) and addDefaultPactInteractions
\* (mock = false): the same body but for the mode and the message
AddDefaultInteractions(list, mock, what, randomIds, failAt, table, defaultPort) ==
    IF ~list.isArray THEN
        Effect(Throw(PactumConfigurationError(what)), <<>>, table, defaultPort)
    ELSE LET r == AddLoop(list.items, mock, randomIds, failAt, defaultPort,
                          1, <<>>, <<>>) IN
         Effect(r.ret, r.calls, table, defaultPort)

RemoveDefaultInteraction(interactionId, port, table, defaultPort) ==
    LET p == PortOrDefault(port, defaultPort) IN
    IF ~NonEmptyString(interactionId) THEN
        Effect(Throw(PactumConfigurationError("Invalid interaction id")),
               <<>>, table, defaultPort)
    ELSE IF TypeOf(p) # "number" THEN
        Effect(Throw(PactumConfigurationError("Invalid port number")),
               <<>>, table, defaultPort)
    ELSE Effect(Return(Undefined),
                <<ServerCall("server.removeDefaultInteraction", interactionId, p, TRUE)>>,
                table, defaultPort)

RemoveDefaultInteractions(port, table, defaultPort) ==
    Effect(Return(Undefined),
           <<ServerCall("server.removeDefaultInteractions", Undefined,
                        PortOrDefault(port, defaultPort), TRUE)>>,
           table, defaultPort)

(***************************************************************************)
(* Inputs of the control plane                                             *)
(***************************************************************************)
MaxBatch == 3       \* longest list handed to a batch operation

GenIds == {"r1", "r2"}      \* what helper.getRandomId() may hand out
OtherPort == DefaultMockPort + 1

ValidRequest == RawRequest("object", Str("GET"), Str("/api"), Undefined, Undefined)
OkResponse   == RawResponse("object", Num(200))

\* valid in both modes; its port is left to the default
PactA == RawInteraction("object", Str("i1"), Undefined, Str("p"), Str("s"), Str("d"),
                        ValidRequest, OkResponse)
\* valid as a mock only: no provider, ignoreQuery set; a port of its own
MockB == RawInteraction("object", Str("i2"), Num(OtherPort), Undefined, Undefined, Undefined,
                RawRequest("object", Str("GET"), Str("/api"), Bool(TRUE), Undefined),
                OkResponse)
\* valid in neither mode: the method is not one of the allowed ones
BadMethod == RawInteraction("object", Str("i3"), Undefined, Str("p"), Str("s"), Str("d"),
                RawRequest("object", Str("TRACE"), Str("/api"), Undefined, Undefined),
                OkResponse)

RawSamples == {PactA, MockB, BadMethod}

Array(items) == [isArray |-> TRUE, items |-> items]
NotAnArray   == [isArray |-> FALSE, items |-> <<>>]

Lists == UNION {[1..n -> RawSamples] : n \in 0..MaxBatch}
ListArgs == {Array(l) : l \in Lists} \cup {NotAnArray}

\* helper.getRandomId() is called for the elements without a usable id only
\* (id || helper.getRandomId()); the others leave it no choice to make
RandomIdsFor(items) ==
    {f \in [1..Len(items) -> GenIds] :
        \A i \in 1..Len(items) : Truthy(items[i].id) => f[i] = "r1"}
RandomIdFor(interaction) ==
    IF Truthy(interaction.id) THEN {"r1"} ELSE GenIds

PortArgs == {Undefined, Num(OtherPort), Num(DefaultMockPort), Str("9394")}
IdArgs   == {Undefined, Str(""), Str("i1"), Str("i2")}

(***************************************************************************)
(* The named handler registry: per kind, a table name -> function.         *)
(***************************************************************************)
HandlerKinds == {"Expect", "Data", "Pact Interaction"}

\* the two messages of add; the source sets name and func in backquotes
NameRequired == "name is required"
FuncRequired == "func is required"

\* the name is absent or empty text
NameMissing(name) == name.t = "undefined" \/ (name.t = "string" /\ name.s = "")

\* a faulty variant: func is looked at before name
AddHandler_FuncFirst(kind, name, func, registry) ==
    IF TypeOf(func) # "function" THEN
        [ret |-> Throw(PactumHandlerError(FuncRequired)), handlers |-> registry]
    ELSE IF NameMissing(name) THEN
        [ret |-> Throw(PactumHandlerError(NameRequired)), handlers |-> registry]
    ELSE [ret |-> Return(Undefined),
          handlers |-> [registry EXCEPT ![kind] = MapSet(registry[kind], name, func)]]

\* a faulty variant: a name already taken keeps its first function
AddHandler_KeepFirst(kind, name, func, registry) ==
    IF NameMissing(name) THEN
        [ret |-> Throw(PactumHandlerError(NameRequired)), handlers |-> registry]
    ELSE IF TypeOf(func) # "function" THEN
        [ret |-> Throw(PactumHandlerError(FuncRequired)), handlers |-> registry]
    ELSE IF name \in DOMAIN registry[kind] THEN
        [ret |-> Return(Undefined), handlers |-> registry]
    ELSE [ret |-> Return(Undefined),
          handlers |-> [registry EXCEPT ![kind] = MapSet(registry[kind], name, func)]]

\* add<Kind>Handler(name, func)
AddHandler(kind, name, func, registry) ==
    IF NameMissing(name) THEN
        [ret |-> Throw(PactumHandlerError(NameRequired)), handlers |-> registry]
    ELSE IF TypeOf(func) # "function" THEN
        [ret |-> Throw(PactumHandlerError(FuncRequired)), handlers |-> registry]
    ELSE [ret |-> Return(Undefined),
          handlers |-> [registry EXCEPT ![kind] = MapSet(registry[kind], name, func)]]

NotFound(kind, name) ==
    PactumHandlerError("Custom " \o kind \o " Handler Not Found - " \o name.s)

\* get<Kind>Handler(name)
GetHandler(kind, name, registry) ==
    IF name \in DOMAIN registry[kind] THEN Return(registry[kind][name])
    ELSE Throw(NotFound(kind, name))

(***************************************************************************)
(* The control plane as a state machine                                    *)
(***************************************************************************)
NoTable == [k \in {} |-> Undefined]
NoHandlers == [k \in HandlerKinds |-> NoTable]

Init ==
    /\ configPort = DefaultMockPort
    /\ interactions = NoTable
    /\ handlers = NoHandlers
    /\ op = [name |-> "init"]
    /\ ret = Pending
    /\ calls = <<>>

Install(e) ==
    /\ ret' = e.ret
    /\ calls' = e.calls
    /\ interactions' = e.interactions
    /\ configPort' = e.configPort
    /\ UNCHANGED handlers

start ==
    \E port \in PortArgs :
        /\ op' = [name |-> "start", port |-> port]
        /\ Install(StartStop("server.start",
                "Invalid port number given to start the mock server",
                port, interactions, configPort))

stop ==
    \E port \in PortArgs :
        /\ op' = [name |-> "stop", port |-> port]
        /\ Install(StartStop("server.stop",
                "Invalid port number given to stop the mock server",
                port, interactions, configPort))

setDefaultPort ==
    \E port \in PortArgs :
        /\ op' = [name |-> "setDefaultPort", port |-> port]
        /\ Install(SetDefaultPort(port, interactions, configPort))

addDefaultMockInteraction ==
    \E interaction \in RawSamples, serverOk \in BOOLEAN :
      \E randomId \in RandomIdFor(interaction) :
        /\ op' = [name |-> "addDefaultMockInteraction", arg |-> interaction]
        /\ Install(AddDefaultMockInteraction(interaction, randomId, serverOk,
                                             interactions, configPort))

addDefaultMockInteractions ==
    \E list \in ListArgs, serverOk \in BOOLEAN :
      \E randomIds \in RandomIdsFor(list.items) :
        /\ op' = [name |-> "addDefaultMockInteractions", arg |-> list]
        /\ Install(AddDefaultInteractions(list, TRUE,
                "Invalid mock interactions array passed",
                randomIds, IF serverOk THEN 0 ELSE 1, interactions, configPort))

addDefaultPactInteraction ==
    \E interaction \in RawSamples, serverOk \in BOOLEAN :
      \E randomId \in RandomIdFor(interaction) :
        /\ op' = [name |-> "addDefaultPactInteraction", arg |-> interaction]
        /\ Install(AddDefaultPactInteraction(interaction, randomId, serverOk,
                                             interactions, configPort))

addDefaultPactInteractions ==
    \E list \in ListArgs, serverOk \in BOOLEAN :
      \E randomIds \in RandomIdsFor(list.items) :
        /\ op' = [name |-> "addDefaultPactInteractions", arg |-> list]
        /\ Install(AddDefaultInteractions(list, FALSE,
                "Invalid pact interactions array passed",
                randomIds, IF serverOk THEN 0 ELSE 1, interactions, configPort))

removeDefaultInteraction ==
    \E interactionId \in IdArgs, port \in PortArgs :
        /\ op' = [name |-> "removeDefaultInteraction", id |-> interactionId, port |-> port]
        /\ Install(RemoveDefaultInteraction(interactionId, port, interactions, configPort))

removeDefaultInteractions ==
    \E port \in PortArgs :
        /\ op' = [name |-> "removeDefaultInteractions", port |-> port]
        /\ Install(RemoveDefaultInteractions(port, interactions, configPort))

Next ==
    \/ start
    \/ stop
    \/ setDefaultPort
    \/ addDefaultMockInteraction
    \/ addDefaultMockInteractions
    \/ addDefaultPactInteraction
    \/ addDefaultPactInteractions
    \/ removeDefaultInteraction
    \/ removeDefaultInteractions

Spec == Init /\ [][Next]_vars

(***************************************************************************)
(* Properties of the control plane (checked under Spec)                    *)
(***************************************************************************)
BatchNames == {"addDefaultMockInteractions", "addDefaultPactInteractions"}
SingleAddNames == {"addDefaultMockInteraction", "addDefaultPactInteraction"}
IsBatch == op.name \in BatchNames
BatchMode == op.name = "addDefaultMockInteractions"

CallsOf(fn) == {i \in 1..Len(calls) : calls[i].fn = fn}
ServerServed == \A i \in 1..Len(calls) : calls[i].ok

\* the positions of the elements that do not pass validation in the mode
InvalidAt(items, mock) ==
    {k \in 1..Len(items) : validateInteraction(items[k], mock) # NoError}
Least(S) == CHOOSE k \in S : \A j \in S : k <= j

\* C1: addDefaultPactInteractions(list) has the effect of calling
\* addDefaultPactInteraction on each element in order: after a batch call that
\* returns, every element is in the id-table under its id, was registered with
\* the server and was forwarded to the store, and the ids are in list order.
C1_BatchPactAsSingles ==
    (op.name = "addDefaultPactInteractions" /\ ret.status = "return") =>
        /\ Len(ret.val) = Len(op.arg.items)
        /\ \A i \in 1..Len(op.arg.items) :
            /\ ret.val[i] = op.arg.items[i].id
            /\ ret.val[i] \in DOMAIN interactions
            /\ \E j \in CallsOf("server.addDefaultInteraction") :
                    calls[j].id = ret.val[i] /\ calls[j].ok
            /\ \E j \in CallsOf("store.addInteraction") : calls[j].id = ret.val[i]

\* C2: batch addition is not atomic.  A non-array argument fails with a
\* PactumConfigurationError before any server call.  With the first invalid
\* element at position k (and a server that serves), the call throws the
\* construction error of element k, the server has received
\* addDefaultInteraction for exactly the elements 1..k-1 in list order, nothing
\* is removed, nothing after k is registered and no id list is returned.
C2_BatchNonAtomic ==
    IsBatch =>
        IF ~op.arg.isArray
        THEN /\ ret.status = "throw"
             /\ ret.err.kind = "PactumConfigurationError"
             /\ calls = <<>>
        ELSE LET items == op.arg.items
                 bad == InvalidAt(items, BatchMode)
             IN (bad # {} /\ ServerServed) =>
                    LET k == Least(bad) IN
                    /\ ret = Throw(validateInteraction(items[k], BatchMode))
                    /\ Len(calls) = k - 1
                    /\ \A j \in 1..(k - 1) :
                        /\ calls[j].fn = "server.addDefaultInteraction"
                        /\ calls[j].id = items[j].id
                        /\ calls[j].arg.mock = BatchMode
                        /\ calls[j].ok

\* two different elements were registered, in list order, before the third failed
C2_Witness ==
    /\ IsBatch /\ op.arg.isArray
    /\ Len(op.arg.items) = 3
    /\ InvalidAt(op.arg.items, BatchMode) = {3}
    /\ ret.status = "throw"
    /\ Len(calls) = 2
    /\ calls[1].id = Str("i1") /\ calls[2].id = Str("i2")

\* C3: the store's addInteraction is invoked only by addDefaultPactInteraction,
\* only for a pact interaction, and only after the server's
\* addDefaultInteraction for the same interaction has succeeded; when the
\* server call fails the failure reaches the caller and the store is not
\* invoked; no mock-add operation invokes the store.
C3_StoreAfterServer ==
    /\ \A i \in CallsOf("store.addInteraction") :
        /\ op.name = "addDefaultPactInteraction"
        /\ ~calls[i].arg.mock
        /\ \E j \in 1..(i - 1) :
            /\ calls[j].fn = "server.addDefaultInteraction"
            /\ calls[j].arg = calls[i].arg
            /\ calls[j].ok
    /\ (op.name = "addDefaultPactInteraction" /\ ~ServerServed) =>
        /\ ret = Throw(ServerFailure)
        /\ CallsOf("store.addInteraction") = {}
    /\ op.name \in {"addDefaultMockInteraction", "addDefaultMockInteractions"} =>
        CallsOf("store.addInteraction") = {}

\* a pact interaction was registered with the server and then forwarded
C3_Witness ==
    /\ op.name = "addDefaultPactInteraction"
    /\ ret.status = "return"
    /\ Len(calls) = 2
    /\ calls[1].fn = "server.addDefaultInteraction" /\ calls[1].ok
    /\ calls[2].fn = "store.addInteraction"

\* C4: removing a pact interaction reverses its registration: once an
\* interaction added with addDefaultPactInteraction is removed with
\* removeDefaultInteraction(id, port) or removeDefaultInteractions(port), the
\* removal has been delegated to the server and the id-table no longer holds
\* the interaction.
C4_Step ==
    (op.name = "addDefaultPactInteraction" /\ ret.status = "return") =>
        LET added == interactions[ret.val] IN
        /\ (op'.name = "removeDefaultInteraction" /\ ret'.status = "return"
                /\ op'.id = added.id /\ calls'[1].arg = added.port) =>
            /\ calls'[1].fn = "server.removeDefaultInteraction"
            /\ added.id \notin DOMAIN interactions'
        /\ (op'.name = "removeDefaultInteractions" /\ ret'.status = "return"
                /\ calls'[1].arg = added.port) =>
            /\ calls'[1].fn = "server.removeDefaultInteractions"
            /\ added.id \notin DOMAIN interactions'

\* C4: in every step, removing a pact interaction that was just added takes
\* it out of the id-table and delegates the removal to the server.
C4_RemovedLeavesTable == [][C4_Step]_vars

\* C8: setDefaultPort(p) with a number changes the default port and nothing
\* else: the interactions already in the id-table keep their ports and no call
\* reaches the server; with anything else it throws a
\* PactumConfigurationError and the default stays.  No other operation changes
\* the default, and an interaction constructed without a port of its own gets
\* the default of that moment, that is the p of the last setDefaultPort.
C8_Step ==
    /\ (op'.name = "setDefaultPort" /\ TypeOf(op'.port) = "number") =>
        /\ ret'.status = "return"
        /\ configPort' = op'.port.n
        /\ interactions' = interactions
        /\ calls' = <<>>
    /\ (op'.name = "setDefaultPort" /\ TypeOf(op'.port) # "number") =>
        /\ ret' = Throw(PactumConfigurationError("Invalid default port number"))
        /\ configPort' = configPort
        /\ interactions' = interactions
        /\ calls' = <<>>
    /\ op'.name # "setDefaultPort" => configPort' = configPort
    /\ \A id \in DOMAIN interactions :
        /\ id \in DOMAIN interactions'
        /\ (interactions'[id] # interactions[id]) =>
                (op'.name = "addDefaultPactInteraction" /\ op'.arg.id = id)
    /\ op'.name \in SingleAddNames =>
        \A i \in 1..Len(calls') :
            op'.arg.port = Undefined => calls'[i].arg.port = Num(configPort)
    /\ op'.name = "addDefaultPactInteraction" /\ ret'.status = "return"
            /\ op'.arg.port = Undefined =>
        interactions'[ret'.val].port = Num(configPort)
    /\ op'.name \in BatchNames =>
        \A i \in 1..Len(calls') :
            op'.arg.items[i].port = Undefined => calls'[i].arg.port = Num(configPort)

\* C8: in every step, setDefaultPort changes the default port only, leaves the
\* registered interactions' ports alone, and later constructions without a
\* port get the new default; a non-number is refused and changes nothing.
C8_SetDefaultPortFrame == [][C8_Step]_vars

\* the default was changed after i1 was registered, and i1 kept its port
C8_Witness ==
    /\ op.name = "setDefaultPort"
    /\ configPort = OtherPort
    /\ Str("i1") \in DOMAIN interactions
    /\ interactions[Str("i1")].port = Num(DefaultMockPort)

(***************************************************************************)
(* Construction on its own: every raw interaction of RawInputs, in both    *)
(* modes, is handed to the constructor once.                               *)
(***************************************************************************)
TextSamples == {Undefined, Str(""), Str("p")}
MethodSamples == {Undefined, Str(""), Str("GET"), Str("HEAD"), Str("get"), Str("TRACE")}
PathSamples == {Undefined, Str("/api")}
FlagSamples == {Undefined, Bool(TRUE), Bool(FALSE), Str("yes")}
StatusSamples == {Undefined, Num(200), Str("200")}
NonObjects == {"undefined", "null", "number"}

RequestInputs ==
    {RawRequest("object", m, p, q, b) :
        m \in MethodSamples, p \in PathSamples, q \in FlagSamples, b \in FlagSamples}
    \cup {NoRequest(t) : t \in NonObjects}

ResponseInputs ==
    {RawResponse("object", st) : st \in StatusSamples}
    \cup {NoResponse(t) : t \in NonObjects}

RawInputs ==
    {RawInteraction("object", id, Undefined, pr, st, up, rq, rs) :
        id \in {Undefined, Str("i1")}, pr \in TextSamples,
        st \in {Str(""), Str("s")}, up \in {Num(7), Str("d")},
        rq \in RequestInputs, rs \in ResponseInputs}
    \cup {NoInteraction(t) : t \in NonObjects \cup {"string"}}

InitInteraction ==
    /\ configPort = DefaultMockPort
    /\ interactions = NoTable
    /\ handlers = NoHandlers
    /\ op \in {[name |-> "new Interaction", arg |-> r, mock |-> m] :
                    r \in RawInputs, m \in BOOLEAN}
    /\ ret = Pending
    /\ calls = <<>>

construct ==
    /\ op.name = "new Interaction"
    /\ ret = Pending
    /\ \E randomId \in RandomIdFor(op.arg) :
            ret' = Interaction(op.arg, op.mock, randomId, configPort)
    /\ UNCHANGED <<configPort, interactions, handlers, op, calls>>

NextInteraction == construct

SpecInteraction == InitInteraction /\ [][NextInteraction]_vars

Constructed == op.name = "new Interaction" /\ ret.status # "pending"
Structured(v) == v.t = "object"

\* the checks in the order the validation is documented to make them, each
\* with the error it raises; a check of contract mode passes in mock mode
DocumentedChecks(raw, mock) ==
    LET rq == raw.withRequest
        rs == raw.willRespondWith
        C(fails, msg) == [fails |-> fails, err |-> PactumInteractionError(msg)]
    IN << C(~Structured(raw), "Invalid interaction provided"),
          C(~mock /\ ~NonEmptyString(raw.provider), "Invalid provider name provided"),
          C(~mock /\ ~NonEmptyString(raw.state), "Invalid state provided"),
          C(~mock /\ ~NonEmptyString(raw.uponReceiving),
            "Invalid upon receiving description provided"),
          C(~Structured(rq), "Invalid interaction request provided"),
          C(~NonEmptyString(rq.method), "Invalid interaction request method provided"),
          C(rq.method.s \notin ALLOWED_REQUEST_METHODS,
            "Invalid interaction request method provided"),
          C(~NonEmptyString(rq.path), "Invalid interaction request path provided"),
          C(~mock /\ Truthy(rq.ignoreQuery), "Pact interaction won't support ignore query"),
          C(~mock /\ Truthy(rq.ignoreBody), "Pact interaction won't support ignore body"),
          C(~Structured(rs), "Invalid interaction request provided"),
          C(TypeOf(rs.status) # "number", "Invalid interaction response status provided") >>

Failing(raw, mock) ==
    {i \in DOMAIN DocumentedChecks(raw, mock) : DocumentedChecks(raw, mock)[i].fails}

\* C5: validation fails fast in the documented order and the first violation
\* wins: a raw interaction with violations is rejected with the error of its
\* earliest failing check, one without is accepted.
C5_FirstViolationWins ==
    Constructed =>
        LET bad == Failing(op.arg, op.mock) IN
        IF bad = {} THEN ret.status = "return"
        ELSE ret = Throw(DocumentedChecks(op.arg, op.mock)[Least(bad)].err)

\* C6: construction returns a fully valid object or fails with a
\* PactumInteractionError: when rawInteraction, withRequest or willRespondWith
\* is not a structured object (a primitive, undefined or null) it fails with a
\* PactumInteractionError and with no other kind of error.
C6_OnlyInteractionErrors ==
    Constructed =>
        /\ ret.status = "throw" => ret.err.kind = "PactumInteractionError"
        /\ ret.status = "return" => Failing(op.arg, op.mock) = {}
        /\ (~Structured(op.arg) \/ ~Structured(op.arg.withRequest)
                \/ ~Structured(op.arg.willRespondWith)) =>
            (ret.status = "throw" /\ ret.err.kind = "PactumInteractionError")

Unsupported ==
    {PactumInteractionError("Pact interaction won't support ignore query"),
     PactumInteractionError("Pact interaction won't support ignore body")}

\* the raw interaction with both ignore flags taken out
WithoutFlags(raw) ==
    [raw EXCEPT !.withRequest.ignoreQuery = Undefined,
                !.withRequest.ignoreBody = Undefined]

\* valid as a contract interaction but for its ignore flags
ValidButForFlags(raw) == validateInteraction(WithoutFlags(raw), FALSE) = NoError

FlagSet(raw) ==
    Truthy(raw.withRequest.ignoreQuery) \/ Truthy(raw.withRequest.ignoreBody)

\* what the constructed request carries for a raw flag: the flag itself when
\* it is a boolean, false otherwise
Carried(v) == IF TypeOf(v) = "boolean" THEN v ELSE Bool(FALSE)

\* a constructed Interaction with an ignore flag set is a mock
C7_FlaggedIsMock ==
    (Constructed /\ ret.status = "return"
        /\ (ret.val.withRequest.ignoreBody = Bool(TRUE)
            \/ ret.val.withRequest.ignoreQuery = Bool(TRUE))) =>
        ret.val.mock

\* contract mode rejects a raw interaction for its truthy flag
C7_ContractRejects ==
    (Constructed /\ ~op.mock /\ ValidButForFlags(op.arg) /\ FlagSet(op.arg)) =>
        (ret.status = "throw" /\ ret.err \in Unsupported)

\* C7 as stated: a constructed Interaction with ignoreBody or ignoreQuery true
\* is a mock; in contract mode a truthy ignoreQuery or ignoreBody makes
\* construction fail with the unsupported-for-contract error, and the same
\* raw interaction in mock mode constructs and carries the flag value as given.
C7_FlagsOnlyOnMocks_Original ==
    /\ C7_FlaggedIsMock
    /\ C7_ContractRejects
    /\ (Constructed /\ op.mock /\ ValidButForFlags(op.arg) /\ FlagSet(op.arg)) =>
        /\ ret.status = "return"
        /\ \A flag \in {"ignoreQuery", "ignoreBody"} :
            Truthy(op.arg.withRequest[flag]) =>
                ret.val.withRequest[flag] = op.arg.withRequest[flag]

\* C7, amended: as above, but in mock mode the constructed request carries
\* the flag only when it is a boolean; any other value is stored as false.
C7_FlagsOnlyOnMocks ==
    /\ C7_FlaggedIsMock
    /\ C7_ContractRejects
    /\ (Constructed /\ op.mock /\ ValidButForFlags(op.arg) /\ FlagSet(op.arg)) =>
        /\ ret.status = "return"
        /\ \A flag \in {"ignoreQuery", "ignoreBody"} :
            ret.val.withRequest[flag] = Carried(op.arg.withRequest[flag])

\* a mock constructed with ignoreBody true from a raw interaction that
\* contract mode rejects for that flag
C7_Witness ==
    /\ Constructed /\ op.mock
    /\ op.arg.withRequest.ignoreBody = Bool(TRUE)
    /\ ValidButForFlags(op.arg)
    /\ ret.status = "return"
    /\ ret.val.withRequest.ignoreBody = Bool(TRUE)
    /\ ret.val.mock

(***************************************************************************)
(* The registry as a state machine                                         *)
(***************************************************************************)
NameArgs == {Undefined, Str(""), Str("a"), Str("hello")}
FuncArgs == {Undefined, Str("not-a-function"), Fn("f"), Fn("g")}

addHandler ==
    \E kind \in HandlerKinds, name \in NameArgs, func \in FuncArgs :
        LET e == AddHandler(kind, name, func, handlers) IN
        /\ op' = [name |-> "addHandler", kind |-> kind, hname |-> name, func |-> func]
        /\ ret' = e.ret
        /\ handlers' = e.handlers
        /\ calls' = <<>>
        /\ UNCHANGED <<configPort, interactions>>

getHandler ==
    \E kind \in HandlerKinds, name \in NameArgs \ {Undefined} :
        /\ op' = [name |-> "getHandler", kind |-> kind, hname |-> name]
        /\ ret' = GetHandler(kind, name, handlers)
        /\ calls' = <<>>
        /\ UNCHANGED <<configPort, interactions, handlers>>

NextHandler == addHandler \/ getHandler

SpecHandler == Init /\ [][NextHandler]_vars

Callable(v) == TypeOf(v) = "function"

\* C9: per kind, get(name) returns the function of the most recent successful
\* add(name, f) (a second add under the name overwrites, without error) and
\* fails with 'Custom <Kind> Handler Not Found - <name>' when there was none;
\* neither add nor get removes an entry.
C9_Step ==
    /\ \A k \in HandlerKinds : \A n \in DOMAIN handlers[k] :
        /\ n \in DOMAIN handlers'[k]
        /\ (handlers'[k][n] # handlers[k][n]) =>
            (op'.name = "addHandler" /\ op'.kind = k /\ op'.hname = n
                /\ ret'.status = "return")
    /\ \A k \in HandlerKinds : \A n \in DOMAIN handlers'[k] \ DOMAIN handlers[k] :
            (op'.name = "addHandler" /\ op'.kind = k /\ op'.hname = n
                /\ ret'.status = "return")
    /\ (op'.name = "addHandler" /\ ~NameMissing(op'.hname) /\ Callable(op'.func)) =>
        /\ ret'.status = "return"
        /\ op'.hname \in DOMAIN handlers'[op'.kind]
        /\ handlers'[op'.kind][op'.hname] = op'.func
    /\ op'.name = "getHandler" =>
        /\ handlers' = handlers
        /\ ret' = IF op'.hname \in DOMAIN handlers[op'.kind]
                  THEN Return(handlers[op'.kind][op'.hname])
                  ELSE Throw(PactumHandlerError(
                        "Custom " \o op'.kind \o " Handler Not Found - " \o op'.hname.s))
    /\ (op.name = "addHandler" /\ ret.status = "return"
            /\ op'.name = "getHandler" /\ op'.kind = op.kind /\ op'.hname = op.hname) =>
        ret' = Return(op.func)

\* C9: in every step, get(name) returns what the most recent successful
\* add(name, f) stored, or fails with the not-found error; no entry is removed.
C9_LastAddWins == [][C9_Step]_vars

\* get returned the second function registered under a name of a kind whose
\* other names are still missing
C9_Witness ==
    /\ op.name = "getHandler" /\ op.kind = "Data" /\ op.hname = Str("hello")
    /\ ret = Return(Fn("g"))
    /\ Str("a") \notin DOMAIN handlers["Data"]
    /\ Str("hello") \in DOMAIN handlers["Expect"]
    /\ handlers["Expect"][Str("hello")] = Fn("f")

\* C10: add(name, func) fails with 'name is required' when name is absent or
\* empty, whatever func is, and with 'func is required' when name is given
\* and func is not callable; a failed add stores nothing, so a get of that
\* name afterwards fails with the not-found error as before.
C10_Step ==
    /\ op'.name = "addHandler" =>
        /\ NameMissing(op'.hname) =>
            ret' = Throw(PactumHandlerError(NameRequired))
        /\ (~NameMissing(op'.hname) /\ ~Callable(op'.func)) =>
            ret' = Throw(PactumHandlerError(FuncRequired))
        /\ ret'.status = "throw" => handlers' = handlers
    /\ (op.name = "addHandler" /\ ret.status = "throw" /\ ~NameMissing(op.hname)
            /\ op.hname \notin DOMAIN handlers[op.kind]
            /\ op'.name = "getHandler" /\ op'.kind = op.kind /\ op'.hname = op.hname) =>
        /\ ret'.status = "throw"
        /\ ret'.err.kind = "PactumHandlerError"
        /\ ret'.err.msg =
            "Custom " \o op.kind \o " Handler Not Found - " \o op.hname.s

\* C10: in every step, add checks name before func, and a failed add stores
\* nothing.
C10_AddValidates == [][C10_Step]_vars

\* add without arguments reported the name
C10_Witness ==
    /\ op.name = "addHandler"
    /\ op.hname = Undefined /\ op.func = Undefined
    /\ ret = Throw(PactumHandlerError(NameRequired))

====
